---- MODULE Spec2Model ----
(***************************************************************************)
(* Model of the llm_file_sort repository: the move engine and directory   *)
(* cleanup of main.py, the older move_files of src/file_utils.py, and the  *)
(* proposal pipelines that build the file mapping.                         *)
(*                                                                         *)
(* A path is a sequence of segments; <<>> is "/".  A filesystem is a pair  *)
(* (files, dirs): files maps the path of every regular file to its         *)
(* content, dirs is the set of existing directories.                       *)
(***************************************************************************)
EXTENDS Integers, Sequences, FiniteSets, TLC

VARIABLES
    files,          \* path -> content, for every regular file on disk
    dirs,           \* set of directories on disk
    files0,         \* the files on disk when the run started
    mapping,        \* file_mapping: sequence of [src, dst] in dict order
    clean_up,       \* kw_args["clean_up"]
    pc,             \* position of the run
    idx,            \* index of the next mapping entry of the for loop
    moved, skipped, errors,
    outcomes,       \* what the loop did with each entry processed so far
    prev_outcomes,  \* outcomes of the previous run of move_files
    run,            \* number of the current run over the same mapping
    dirs_to_check,  \* candidates of the cleanup loop still to visit
    removed_count,
    removed_log,    \* console: "Removed empty directory" lines, in order
    rm_errors,      \* console: number of "Error removing directory" lines
    engine,         \* "main" (main.py) or "file_utils" (src/file_utils.py)
    parent,         \* cursor of the upward walk of file_utils.move_files
    source_dirs,    \* file_utils.move_files: directories files were taken from
    exit_code,      \* process exit status, -1 while running
    pipeline,       \* which proposal pipeline runs, "none" in a move-only run
    stage,          \* position of the proposal pipeline
    input_paths,    \* the paths of the collected files
    todo,           \* map_files_to_directories: files still to map
    directories,    \* the directory list offered to the model
    file_mapping,   \* the mapping under construction: path -> destination
    model_mapping,  \* the mapping as first parsed from the model response
    missing_files,  \* result of the last completeness check
    repair_calls,   \* number of calls of ai_fix_missing_files
    error_count,    \* map_files_to_directories: error_count
    call_log,       \* the model requests made for the files, with their end
    answer,         \* what the user typed at the confirmation prompt
    validation,     \* main(): result of validate_file_mapping
    request,        \* the ai_utils request function being executed
    max_retries,    \* its max_retries argument
    retries,        \* its retries counter
    invocations,    \* number of litellm.completion calls it has made
    result,         \* how it ended: "running", "returned" or the exception
    exc_log,        \* what each litellm.completion call did, in order
    repair_exchange, \* main_two_step: arguments and answer of the repair
    file_paths,     \* visualize_file_tree: the list of paths to render
    tree_directories, \* its dictionary "directories"
    queue,          \* its deque of directories whose children are pending
    processed,      \* its set "processed"
    rendered,       \* the nodes added to the rich Tree, in order
    tree_pc         \* position of visualize_file_tree

fsVars   == <<files, dirs, files0>>
moveVars == <<mapping, clean_up, engine, idx, moved, skipped, errors,
              outcomes, prev_outcomes, run>>
cleanVars == <<dirs_to_check, removed_count, removed_log, rm_errors, parent,
               source_dirs>>
pipeVars == <<pipeline, stage, input_paths, todo, directories, file_mapping,
              model_mapping, missing_files, repair_calls, error_count,
              call_log, repair_exchange>>
mainVars == <<answer, validation>>
retryVars == <<request, max_retries, retries, invocations, result, exc_log>>
treeVars == <<file_paths, tree_directories, queue, processed, rendered,
              tree_pc>>
engineVars == <<files, dirs, files0, mapping, clean_up, engine, pc, idx,
                moved, skipped, errors, outcomes, prev_outcomes, run,
                dirs_to_check, removed_count, removed_log, rm_errors, parent,
                source_dirs>>
vars == <<files, dirs, files0, mapping, clean_up, engine, pc, idx, moved,
          skipped, errors, outcomes, prev_outcomes, run, dirs_to_check,
          removed_count, removed_log, rm_errors, parent, source_dirs,
          exit_code, pipeline, stage, input_paths, todo, directories,
          file_mapping, model_mapping, missing_files, repair_calls,
          error_count, call_log, answer, validation, request, max_retries,
          retries, invocations, result, exc_log, repair_exchange,
          file_paths,
          tree_directories, queue, processed, rendered, tree_pc>>

----------------------------------------------------------------------------
(* Bounds *)
MaxEntries == 2
MaxRuns == 2
MaxRetries == 2
MaxValidated == 3
MaxPaths == 3

----------------------------------------------------------------------------
(* Paths *)
Top     == <<>>
Root    == <<"r">>
Outside == <<"o">>

SourcePaths == { <<"r", "f">>, <<"r", "a", "f">>, <<"r", "a", "b", "f">> }
TreeDirs    == { <<"r", "a">>, <<"r", "a", "b">>, <<"r", "x">> }
DirNames    == { "a", "b", "x" }
\* directory_structure entries as main() joins them below the root
DestDirs    == { <<>>, <<".">>, <<"a">>, <<"x">>, <<"a", "b">> }

Dirname(p)  == IF Len(p) = 0 THEN p ELSE SubSeq(p, 1, Len(p) - 1)
Basename(p) == p[Len(p)]
Join(p, q)  == p \o q

RECURSIVE Normpath(_)
Normpath(p) ==
    IF Len(p) = 0 THEN <<>>
    ELSE LET head == Normpath(SubSeq(p, 1, Len(p) - 1))
             last == p[Len(p)]
         IN  IF last = "." THEN head
             ELSE IF last = ".." THEN Dirname(head)
             ELSE Append(head, last)

Ancestors(p) == { SubSeq(p, 1, k) : k \in 0..Len(p) }

----------------------------------------------------------------------------
(* Filesystem calls; the OS resolves "." and ".." itself *)
IsFile(f, p)    == Normpath(p) \in DOMAIN f
IsDir(d, p)     == Normpath(p) \in d
Exists(f, d, p) == IsFile(f, p) \/ IsDir(d, p)
Listdir(f, d, p) ==
    { q \in (DOMAIN f) \cup d : Len(q) = Len(Normpath(p)) + 1
                                /\ Dirname(q) = Normpath(p) }

\* os.makedirs(p, exist_ok=True): every missing ancestor is created; a
\* regular file on the way is an error
Makedirs(f, d, p, oserr) ==
    LET n == Normpath(p)
    IN  IF n \in d THEN [ok |-> TRUE, dirs |-> d]
        ELSE IF oserr \/ (\E q \in Ancestors(n) : q \in DOMAIN f)
        THEN [ok |-> FALSE, dirs |-> d]
        ELSE [ok |-> TRUE, dirs |-> d \cup Ancestors(n)]

Remove(f, p) == [q \in (DOMAIN f) \ {p} |-> f[q]]
Put(f, p, c) == [q \in (DOMAIN f) \cup {p} |-> IF q = p THEN c ELSE f[q]]

\* os.rename(src, dst) on POSIX: an existing regular file at dst is replaced
Rename(f, d, src, dst, oserr) ==
    LET s == Normpath(src)
        t == Normpath(dst)
    IN  IF oserr \/ s \notin DOMAIN f \/ t \in d \/ Dirname(t) \notin d
        THEN [ok |-> FALSE, files |-> f]
        ELSE IF s = t THEN [ok |-> TRUE, files |-> f]
        ELSE [ok |-> TRUE, files |-> Put(Remove(f, s), t, f[s])]

\* os.rmdir(p): only an empty directory can be removed
Rmdir(f, d, p, oserr) ==
    IF oserr \/ Normpath(p) \notin d \/ Listdir(f, d, p) # {}
    THEN [ok |-> FALSE, dirs |-> d]
    ELSE [ok |-> TRUE, dirs |-> d \ {Normpath(p)}]

----------------------------------------------------------------------------
\* variant: an OS error of the rename leaves move_files as an exception
MoveEntryResult_Reraise(f, d, src, dst, oserr) ==
    LET mk == Makedirs(f, d, Dirname(dst), oserr = "mkdir")
    IN  IF ~mk.ok
        THEN [files |-> f, dirs |-> d, outcome |-> "mkdir_error",
              raised |-> TRUE]
        ELSE IF ~Exists(f, mk.dirs, src)
        THEN [files |-> f, dirs |-> mk.dirs, outcome |-> "missing",
              raised |-> FALSE]
        ELSE IF Normpath(src) = Normpath(dst)
        THEN [files |-> f, dirs |-> mk.dirs, outcome |-> "skipped",
              raised |-> FALSE]
        ELSE LET mv == Rename(f, mk.dirs, src, dst, oserr = "rename")
             IN  IF mv.ok
                 THEN [files |-> mv.files, dirs |-> mk.dirs,
                       outcome |-> "moved", raised |-> FALSE]
                 ELSE [files |-> f, dirs |-> mk.dirs,
                       outcome |-> "error", raised |-> TRUE]

\* variant: source and destination compared without os.path.normpath
MoveEntryResult_RawCompare(f, d, src, dst, oserr) ==
    LET mk == Makedirs(f, d, Dirname(dst), oserr = "mkdir")
    IN  IF ~mk.ok
        THEN [files |-> f, dirs |-> d, outcome |-> "mkdir_error",
              raised |-> TRUE]
        ELSE IF ~Exists(f, mk.dirs, src)
        THEN [files |-> f, dirs |-> mk.dirs, outcome |-> "missing",
              raised |-> FALSE]
        ELSE IF src = dst
        THEN [files |-> f, dirs |-> mk.dirs, outcome |-> "skipped",
              raised |-> FALSE]
        ELSE LET mv == Rename(f, mk.dirs, src, dst, oserr = "rename")
             IN  IF mv.ok
                 THEN [files |-> mv.files, dirs |-> mk.dirs,
                       outcome |-> "moved", raised |-> FALSE]
                 ELSE [files |-> f, dirs |-> mk.dirs,
                       outcome |-> "error", raised |-> FALSE]

(* main.py: move_files, one iteration of the for loop.  raised: the      *)
(* exception leaves move_files (os.makedirs is outside the try block).    *)
MoveEntryResult(f, d, src, dst, oserr) ==
    LET mk == Makedirs(f, d, Dirname(dst), oserr = "mkdir")
    IN  IF ~mk.ok
        THEN [files |-> f, dirs |-> d, outcome |-> "mkdir_error",
              raised |-> TRUE]
        ELSE IF ~Exists(f, mk.dirs, src)
        THEN [files |-> f, dirs |-> mk.dirs, outcome |-> "missing",
              raised |-> FALSE]
        ELSE IF Normpath(src) = Normpath(dst)
        THEN [files |-> f, dirs |-> mk.dirs, outcome |-> "skipped",
              raised |-> FALSE]
        ELSE LET mv == Rename(f, mk.dirs, src, dst, oserr = "rename")
             IN  IF mv.ok
                 THEN [files |-> mv.files, dirs |-> mk.dirs,
                       outcome |-> "moved", raised |-> FALSE]
                 ELSE [files |-> f, dirs |-> mk.dirs,
                       outcome |-> "error", raised |-> FALSE]

\* the (moved, skipped, errors) counters after one iteration
Tally(outcome, m, s, e) ==
    [moved   |-> IF outcome = "moved"   THEN m + 1 ELSE m,
     skipped |-> IF outcome = "skipped" THEN s + 1 ELSE s,
     errors  |-> IF outcome = "error"   THEN e + 1 ELSE e]

\* main.py: move_files over the first k entries of m when the OS raises
\* nothing: the filesystem it leaves and the counters it returns
RECURSIVE RunMoveFiles(_, _, _, _)
RunMoveFiles(f, d, m, k) ==
    IF k = 0
    THEN [files |-> f, dirs |-> d, moved |-> 0, skipped |-> 0, errors |-> 0]
    ELSE LET prev == RunMoveFiles(f, d, m, k - 1)
             r == MoveEntryResult(prev.files, prev.dirs, m[k].src, m[k].dst,
                                  "none")
             t == Tally(r.outcome, prev.moved, prev.skipped, prev.errors)
         IN  [files |-> r.files, dirs |-> r.dirs, moved |-> t.moved,
              skipped |-> t.skipped, errors |-> t.errors]

(* main.py: cleanup_empty_dirs *)
RECURSIVE OrderBy(_, _)
OrderBy(S, rank) ==
    IF S = {} THEN <<>>
    ELSE LET m == CHOOSE x \in S :
                    \A y \in S : rank[Basename(x)] <= rank[Basename(y)]
         IN  <<m>> \o OrderBy(S \ {m}, rank)

Subdirs(d, p) == { q \in d : Len(q) = Len(p) + 1 /\ Dirname(q) = p }

RECURSIVE ConcatWalk(_, _, _)
\* variant: os.walk top-down, a directory is listed before its children
WalkBottomUp_TopDown(d, p, rank) ==
    LET kids == OrderBy(Subdirs(d, p), rank)
    IN  kids \o ConcatWalk(d, kids, rank)

\* [join(root, d) for root, dirs, _ in os.walk(p, topdown=False) for d in dirs]
WalkBottomUp(d, p, rank) ==
    LET kids == OrderBy(Subdirs(d, p), rank)
    IN  ConcatWalk(d, kids, rank) \o kids

ConcatWalk(d, kids, rank) ==
    IF kids = <<>> THEN <<>>
    ELSE WalkBottomUp(d, Head(kids), rank) \o ConcatWalk(d, Tail(kids), rank)

\* the order in which the OS lists the entries of a directory is arbitrary
Rankings ==
    { r \in [DirNames \cup {"r"} -> 1..(Cardinality(DirNames) + 1)] :
        \A x, y \in DirNames \cup {"r"} : x # y => r[x] # r[y] }

\* variant: the directory is removed with everything below it
CleanupDirResult_Rmtree(f, d, dir_path, oserr) ==
    IF Exists(f, d, dir_path)
    THEN [dirs |-> { q \in d : Normpath(dir_path) \notin Ancestors(q) },
          outcome |-> "removed"]
    ELSE [dirs |-> d, outcome |-> "kept"]

\* "if os.path.exists(p) and not os.listdir(p): os.rmdir(p)"
CleanupDirResult(f, d, dir_path, oserr) ==
    IF Exists(f, d, dir_path) /\ Listdir(f, d, dir_path) = {}
    THEN LET rm == Rmdir(f, d, dir_path, oserr)
         IN  IF rm.ok THEN [dirs |-> rm.dirs, outcome |-> "removed"]
             ELSE [dirs |-> d, outcome |-> "raise"]
    ELSE [dirs |-> d, outcome |-> "kept"]

----------------------------------------------------------------------------
(* src/file_utils.py (and src/move_files.py): move_files *)
\* shutil.move(src, dst): into dst when dst is a directory, else os.rename
ShutilMove(f, d, src, dst, oserr) ==
    LET real_dst == IF IsDir(d, dst) THEN Join(dst, <<Basename(src)>>)
                    ELSE dst
    IN  IF IsDir(d, dst) /\ Exists(f, d, real_dst)
        THEN [ok |-> FALSE, files |-> f]
        ELSE Rename(f, d, src, real_dst, oserr)

\* os.makedirs(p) without exist_ok, called only when p does not exist
MakedirsIfMissing(f, d, p, oserr) ==
    IF Exists(f, d, p) THEN [ok |-> TRUE, dirs |-> d]
    ELSE Makedirs(f, d, p, oserr)

\* one iteration of the for loop over file_mapping.items()
LegacyMoveEntryResult(f, d, src, dst, oserr) ==
    IF ~Exists(f, d, src)
    THEN [files |-> f, dirs |-> d, outcome |-> "missing",
          raised |-> FALSE, source_dirs |-> {}]
    ELSE LET mk == MakedirsIfMissing(f, d, Dirname(dst), oserr = "mkdir")
         IN  IF ~mk.ok
             THEN [files |-> f, dirs |-> d, outcome |-> "mkdir_error",
                   raised |-> TRUE, source_dirs |-> {Dirname(src)}]
             ELSE LET mv == ShutilMove(f, mk.dirs, src, dst, oserr = "rename")
                  IN  [files |-> mv.files, dirs |-> mk.dirs,
                       outcome |-> IF mv.ok THEN "moved" ELSE "error",
                       raised |-> FALSE, source_dirs |-> {Dirname(src)}]

RECURSIVE ByDepth(_, _)
\* sorted(source_dirs, key=lambda x: x.count(os.sep), reverse=True)
ByDepth(S, rank) ==
    IF S = {} THEN <<>>
    ELSE LET m == CHOOSE x \in S : \A y \in S :
                    \/ Len(x) > Len(y)
                    \/ Len(x) = Len(y) /\ rank[Basename(x)] <= rank[Basename(y)]
         IN  <<m>> \o ByDepth(S \ {m}, rank)

----------------------------------------------------------------------------
(* Initial states: a tree below the root and a mapping over its files *)
IdentityFiles(S) == [p \in S |-> p]

InitialDirs(S) ==
    { D \in SUBSET TreeDirs :
        /\ \A p \in S : Dirname(p) \in D \cup {Root}
        /\ \A q \in D : Dirname(q) \in D \cup {Root} }

Distinct(m) == \A i, j \in DOMAIN m : i # j => m[i].src # m[j].src

\* main(): absolute_file_mapping built from relative_file_mapping
AbsoluteEntry(rel_src, rel_dst) ==
    [src |-> Join(Root, rel_src),
     dst |-> Join(Join(Root, rel_dst), <<Basename(rel_src)>>)]

RelativeSources == { Tail(p) : p \in SourcePaths }

MainMappings ==
    UNION { { m \in [1..n -> { AbsoluteEntry(s, t) :
                                 s \in RelativeSources, t \in DestDirs }] :
                Distinct(m) } : n \in 1..MaxEntries }

\* main_two_step(): absolute_mapping; the new path is whatever the model gave
LegacyDests ==
    { <<"r", "x", "f">>, <<"r", "f">>, <<"o", "f">>, <<"r", "a">> }

LegacyMappings ==
    UNION { { m \in [1..n -> [src : SourcePaths, dst : LegacyDests]] :
                Distinct(m) } : n \in 1..MaxEntries }

InitFS ==
    /\ \E S \in SUBSET SourcePaths :
          /\ files = IdentityFiles(S)
          /\ \E D \in InitialDirs(S) : dirs = D \cup {Top, Root, Outside}
    /\ files0 = files

EmptyMap == [k \in {} |-> <<>>]

\* ai_fix_missing_files has not been called
NoRepair == [missing_files |-> {}, response |-> EmptyMap]

\* validate_file_mapping has not run
NoValidation ==
    [destination_conflicts |-> EmptyMap, source_missing |-> <<>>,
     destination_exists |-> <<>>]

InitNoPipeline ==
    /\ pipeline = "none" /\ stage = "none"
    /\ input_paths = {} /\ todo = <<>> /\ directories = {}
    /\ file_mapping = EmptyMap /\ model_mapping = EmptyMap
    /\ missing_files = {} /\ repair_calls = 0 /\ error_count = 0
    /\ call_log = <<>> /\ repair_exchange = NoRepair

\* visualize_file_tree is not being followed
InitNoTree ==
    /\ file_paths = <<>> /\ tree_directories = EmptyMap
    /\ queue = <<>> /\ processed = {} /\ rendered = <<>>
    /\ tree_pc = "none"

\* no ai_utils request function is being followed
InitNoRetry ==
    /\ request = "none" /\ max_retries = 0 /\ retries = 0
    /\ invocations = 0 /\ result = "none" /\ exc_log = <<>>

InitIdle ==
    /\ idx = 1 /\ moved = 0 /\ skipped = 0 /\ errors = 0
    /\ outcomes = <<>> /\ prev_outcomes = <<>> /\ run = 1
    /\ dirs_to_check = <<>> /\ removed_count = 0
    /\ removed_log = <<>> /\ rm_errors = 0
    /\ parent = <<>> /\ source_dirs = {}
    /\ exit_code = -1
    /\ validation = NoValidation

InitMain ==
    /\ engine = "main"
    /\ InitFS
    /\ mapping \in MainMappings
    /\ clean_up \in BOOLEAN
    /\ pc = "move"
    /\ answer = "y"
    /\ InitIdle
    /\ InitNoPipeline
    /\ InitNoRetry
    /\ InitNoTree

InitLegacy ==
    /\ engine = "file_utils"
    /\ InitFS
    /\ mapping \in LegacyMappings
    /\ clean_up = TRUE
    /\ pc = "move"
    /\ answer = "y"
    /\ InitIdle
    /\ InitNoPipeline
    /\ InitNoRetry
    /\ InitNoTree

----------------------------------------------------------------------------
(* main.py: the move phase and the cleanup phase of main() *)
MoveEntry ==
    /\ engine = "main"
    /\ pc = "move"
    /\ idx <= Len(mapping)
    /\ \E oserr \in {"none", "mkdir", "rename"} :
        LET r == MoveEntryResult(files, dirs, mapping[idx].src,
                                 mapping[idx].dst, oserr)
            t == Tally(r.outcome, moved, skipped, errors)
        IN  /\ files' = r.files
            /\ dirs' = r.dirs
            /\ outcomes' = Append(outcomes, r.outcome)
            /\ moved' = t.moved
            /\ skipped' = t.skipped
            /\ errors' = t.errors
            /\ IF r.raised
               THEN pc' = "done" /\ exit_code' = 1 /\ idx' = idx
               ELSE pc' = "move" /\ exit_code' = exit_code /\ idx' = idx + 1
    /\ UNCHANGED <<pipeVars, mainVars, retryVars, treeVars>>
    /\ UNCHANGED <<files0, mapping, clean_up, engine, prev_outcomes, run,
                   cleanVars>>

MoveFilesReturn ==
    /\ engine = "main"
    /\ pc = "move"
    /\ idx > Len(mapping)
    /\ pc' = IF clean_up THEN "cleanup_start" ELSE "done"
    /\ exit_code' = IF clean_up THEN exit_code ELSE 0
    /\ UNCHANGED <<pipeVars, mainVars, retryVars, treeVars>>
    /\ UNCHANGED <<fsVars, moveVars, cleanVars>>

CleanupStart ==
    /\ engine = "main"
    /\ pc = "cleanup_start"
    /\ \E rank \in Rankings :
          dirs_to_check' = WalkBottomUp(dirs, Root, rank)
    /\ removed_count' = 0
    /\ IF dirs_to_check' = <<>>
       THEN pc' = "done" /\ exit_code' = 0
       ELSE pc' = "cleanup" /\ exit_code' = exit_code
    /\ UNCHANGED <<pipeVars, mainVars, retryVars, treeVars>>
    /\ UNCHANGED <<fsVars, moveVars, removed_log, rm_errors, parent,
                   source_dirs>>

CleanupStep ==
    /\ engine = "main"
    /\ pc = "cleanup"
    /\ dirs_to_check # <<>>
    /\ \E oserr \in BOOLEAN :
        LET r == CleanupDirResult(files, dirs, Head(dirs_to_check), oserr)
        IN  /\ dirs' = r.dirs
            /\ removed_count' = IF r.outcome = "removed"
                                THEN removed_count + 1 ELSE removed_count
            /\ removed_log' = IF r.outcome = "removed"
                              THEN Append(removed_log, Head(dirs_to_check))
                              ELSE removed_log
            /\ IF r.outcome = "raise"
               THEN /\ pc' = "done" /\ exit_code' = 1
                    /\ dirs_to_check' = dirs_to_check
               ELSE /\ dirs_to_check' = Tail(dirs_to_check)
                    /\ IF Tail(dirs_to_check) = <<>>
                       THEN pc' = "done" /\ exit_code' = 0
                       ELSE pc' = "cleanup" /\ exit_code' = exit_code
    /\ UNCHANGED <<pipeVars, mainVars, retryVars, treeVars>>
    /\ UNCHANGED <<files, files0, moveVars, rm_errors, parent, source_dirs>>

\* the program invoked again on the same tree with the same mapping
Rerun ==
    /\ pc = "done"
    /\ run < MaxRuns
    /\ run' = run + 1
    /\ prev_outcomes' = outcomes
    /\ outcomes' = <<>>
    /\ idx' = 1 /\ moved' = 0 /\ skipped' = 0 /\ errors' = 0
    /\ files0' = files
    /\ dirs_to_check' = <<>> /\ removed_count' = 0
    /\ removed_log' = <<>> /\ rm_errors' = 0
    /\ parent' = <<>> /\ source_dirs' = {}
    /\ pc' = "move"
    /\ exit_code' = -1
    /\ UNCHANGED <<pipeVars, mainVars, retryVars, treeVars>>
    /\ UNCHANGED <<files, dirs, mapping, clean_up, engine>>

----------------------------------------------------------------------------
(* src/file_utils.py: move_files, the move loop and the cleanup loop *)
LegacyMoveEntry ==
    /\ engine = "file_utils"
    /\ pc = "move"
    /\ idx <= Len(mapping)
    /\ \E oserr \in {"none", "mkdir", "rename"} :
        LET r == LegacyMoveEntryResult(files, dirs, mapping[idx].src,
                                       mapping[idx].dst, oserr)
        IN  /\ files' = r.files
            /\ dirs' = r.dirs
            /\ outcomes' = Append(outcomes, r.outcome)
            /\ source_dirs' = source_dirs \cup r.source_dirs
            /\ IF r.raised
               THEN pc' = "done" /\ exit_code' = 1 /\ idx' = idx
               ELSE pc' = "move" /\ exit_code' = exit_code /\ idx' = idx + 1
    /\ UNCHANGED <<pipeVars, mainVars, retryVars, treeVars>>
    /\ UNCHANGED <<files0, mapping, clean_up, engine, moved, skipped, errors,
                   prev_outcomes, run, dirs_to_check, removed_count,
                   removed_log, rm_errors, parent>>

LegacyCleanupStart ==
    /\ engine = "file_utils"
    /\ pc = "move"
    /\ idx > Len(mapping)
    /\ IF source_dirs = {}
       THEN /\ pc' = "done" /\ exit_code' = 0
            /\ dirs_to_check' = dirs_to_check
       ELSE /\ \E rank \in Rankings :
                 dirs_to_check' = ByDepth(source_dirs, rank)
            /\ pc' = "cleanup" /\ exit_code' = exit_code
    /\ UNCHANGED <<pipeVars, mainVars, retryVars, treeVars>>
    /\ UNCHANGED <<fsVars, moveVars, removed_count, removed_log, rm_errors,
                   parent, source_dirs>>

\* what follows the end of one iteration of the cleanup loop
LegacyNextCandidate(rest) ==
    IF rest = <<>> THEN pc' = "done" /\ exit_code' = 0
    ELSE pc' = "cleanup" /\ exit_code' = exit_code

LegacyCleanupDir ==
    /\ engine = "file_utils"
    /\ pc = "cleanup"
    /\ dirs_to_check # <<>>
    /\ dirs_to_check' = Tail(dirs_to_check)
    /\ \E oserr \in BOOLEAN :
        LET dir_path == Head(dirs_to_check)
            r == CleanupDirResult(files, dirs, dir_path, oserr)
        IN  /\ dirs' = r.dirs
            /\ removed_log' = IF r.outcome = "removed"
                              THEN Append(removed_log, dir_path)
                              ELSE removed_log
            /\ rm_errors' = IF r.outcome = "raise"
                            THEN rm_errors + 1 ELSE rm_errors
            /\ IF r.outcome = "removed"
               THEN /\ parent' = Dirname(dir_path)
                    /\ pc' = "walk_up" /\ exit_code' = exit_code
               ELSE /\ parent' = parent
                    /\ LegacyNextCandidate(Tail(dirs_to_check))
    /\ UNCHANGED <<pipeVars, mainVars, retryVars, treeVars>>
    /\ UNCHANGED <<files, files0, moveVars, removed_count, source_dirs>>

\* one evaluation of the while condition and, if true, of the while body
LegacyWalkUp ==
    /\ engine = "file_utils"
    /\ pc = "walk_up"
    /\ \E oserr \in BOOLEAN :
        LET r == CleanupDirResult(files, dirs, parent, oserr)
        IN  /\ dirs' = r.dirs
            /\ removed_log' = IF r.outcome = "removed"
                              THEN Append(removed_log, parent)
                              ELSE removed_log
            /\ rm_errors' = IF r.outcome = "raise"
                            THEN rm_errors + 1 ELSE rm_errors
            /\ IF r.outcome = "removed"
               THEN /\ parent' = Dirname(parent)
                    /\ pc' = "walk_up" /\ exit_code' = exit_code
               ELSE /\ parent' = parent
                    /\ LegacyNextCandidate(dirs_to_check)
    /\ UNCHANGED <<pipeVars, mainVars, retryVars, treeVars>>
    /\ UNCHANGED <<files, files0, moveVars, dirs_to_check, removed_count,
                   source_dirs>>

----------------------------------------------------------------------------
InitMove == InitMain \/ InitLegacy

NextMove ==
    \/ MoveEntry
    \/ MoveFilesReturn
    \/ CleanupStart
    \/ CleanupStep
    \/ Rerun
    \/ LegacyMoveEntry
    \/ LegacyCleanupStart
    \/ LegacyCleanupDir
    \/ LegacyWalkUp

SpecMove == InitMove /\ [][NextMove]_vars

----------------------------------------------------------------------------
(* The proposal pipelines.  A relative path is a sequence of segments; the *)
(* model may answer with any mapping over the keys of KeyUniverse.         *)
InputUniverse == { <<"f">>, <<"a", "f">> }
KeyUniverse   == InputUniverse \cup { <<"z">> }
Values        == { <<"x">>, <<"a">> }

ModelMappings == UNION { [S -> Values] : S \in SUBSET KeyUniverse }

Orderings(S) ==
    { q \in [1..Cardinality(S) -> S] :
        \A i, j \in DOMAIN q : i # j => q[i] # q[j] }

Merge(m, r) ==
    [k \in (DOMAIN m) \cup (DOMAIN r) |-> IF k \in DOMAIN r THEN r[k] ELSE m[k]]

\* set(original_files) - set(proposed_files)
MissingFiles(paths, m) == paths \ DOMAIN m

\* validate_file_mapping(file_info_list, file_mapping, console)
ValidateFileMapping(paths, m) ==
    [included |-> paths \cap DOMAIN m, missing |-> paths \ DOMAIN m]

\* ai_fix_missing_files(...): the repair answer merged into the mapping
AiFixMissingFiles(m, repair) == Merge(m, repair)

\* variant: the mapping is used after the repair without a second check
AfterRepair_NoRecheck(missing) == "confirm"

\* main_two_step: "if missing_files: ... return" after the repair
AfterRepair(missing) == IF missing # {} THEN "unfixed" ELSE "confirm"

\* main_two_step: "if missing_files:" after the first validation
AfterValidate(missing) == IF missing # {} THEN "repair" ELSE "confirm"

\* what ai_map_file_to_directory gives for one file: a directory of the
\* list, or one of its exceptions
AiMapResults(dir_list) ==
    { [exc |-> "none", dir |-> d] : d \in dir_list }
    \cup { [exc |-> e, dir |-> <<>>] :
             e \in {"MappingError", "ModelConnectionError", "AIUtilsError"} }

\* map_files_to_directories: body of the for loop
MapFileResult(m, file, res) ==
    IF res.exc = "none" THEN Put(m, file, res.dir)
    ELSE Put(m, file, Dirname(file))

InitNoEngine ==
    /\ engine = "none" /\ pc = "idle"
    /\ files = EmptyMap /\ files0 = EmptyMap /\ dirs = {}
    /\ mapping = <<>> /\ clean_up = FALSE
    /\ answer = ""
    /\ InitIdle

InitPipeline ==
    /\ InitNoEngine
    /\ InitNoRetry
    /\ InitNoTree
    /\ pipeline \in {"proposal", "two_step", "map_files"}
    /\ input_paths \in (SUBSET InputUniverse) \ {{}}
    /\ todo \in IF pipeline = "map_files" THEN Orderings(input_paths)
                ELSE {<<>>}
    /\ directories \in IF pipeline = "map_files"
                       THEN {{<<"x">>}, {<<"x">>, <<"a">>}} ELSE {{}}
    /\ stage = CASE pipeline = "proposal" -> "create_mapping"
                 [] pipeline = "two_step" -> "generate_dirs"
                 [] pipeline = "map_files" -> "content"
    /\ file_mapping = EmptyMap /\ model_mapping = EmptyMap
    /\ missing_files = {} /\ repair_calls = 0 /\ error_count = 0
    /\ call_log = <<>> /\ repair_exchange = NoRepair

(* src/generate_structure_proposal.py: generate_structure_proposal *)
\* analyze_files_structure and create_file_mapping; an API error or a
\* response that json.loads rejects leaves the function as an exception
ProposalCreateMapping ==
    /\ pipeline = "proposal" /\ stage = "create_mapping"
    /\ \/ /\ \E m \in ModelMappings : file_mapping' = m
          /\ model_mapping' = file_mapping'
          /\ stage' = "validate" /\ exit_code' = exit_code
       \/ /\ stage' = "crashed" /\ exit_code' = 1
          /\ UNCHANGED <<file_mapping, model_mapping>>
    /\ UNCHANGED <<engineVars, mainVars, retryVars, treeVars, call_log,
                   repair_exchange>>
    /\ UNCHANGED <<pipeline, input_paths, todo, directories,
                   missing_files, repair_calls, error_count>>

ProposalValidate ==
    /\ pipeline = "proposal" /\ stage = "validate"
    /\ missing_files' = MissingFiles(input_paths, file_mapping)
    /\ IF missing_files' # {}
       THEN stage' = "exited" /\ exit_code' = 2
       ELSE stage' = "returned" /\ exit_code' = exit_code
    /\ UNCHANGED <<engineVars, mainVars, retryVars, treeVars, call_log,
                   repair_exchange>>
    /\ UNCHANGED <<pipeline, input_paths, todo, directories,
                   file_mapping, model_mapping, repair_calls, error_count>>

(* main.py: process_files_content *)
\* how the caption or summary request of one file ends; "none" also stands
\* for a file with neither image nor text content, for which none is made
ContentResults ==
    { "none", "ImageProcessingError", "TextProcessingError",
      "ModelConnectionError", "AIUtilsError", "Exception" }

\* body of the for loop: every exception is caught and counted, the loop
\* goes on with the next file
ProcessFileStep ==
    /\ pipeline = "map_files" /\ stage = "content"
    /\ todo # <<>>
    /\ \E exc \in ContentResults :
          call_log' = Append(call_log, [request |-> "content",
                                        file |-> Head(todo), exc |-> exc])
    /\ todo' = Tail(todo)
    /\ UNCHANGED <<engineVars, mainVars, retryVars, treeVars,
                   repair_exchange>>
    /\ UNCHANGED <<exit_code, pipeline, stage, input_paths, directories,
                   file_mapping, model_mapping, missing_files, repair_calls,
                   error_count>>

\* "return files", then main() calls map_files_to_directories on them
ProcessFilesReturn ==
    /\ pipeline = "map_files" /\ stage = "content"
    /\ todo = <<>>
    /\ todo' = [i \in DOMAIN call_log |-> call_log[i].file]
    /\ stage' = "mapping"
    /\ UNCHANGED <<engineVars, mainVars, retryVars, treeVars, call_log,
                   repair_exchange>>
    /\ UNCHANGED <<exit_code, pipeline, input_paths, directories,
                   file_mapping, model_mapping, missing_files, repair_calls,
                   error_count>>

(* main.py: map_files_to_directories *)
MapFileStep ==
    /\ pipeline = "map_files" /\ stage = "mapping"
    /\ todo # <<>>
    /\ \E res \in AiMapResults(directories) :
          /\ file_mapping' = MapFileResult(file_mapping, Head(todo), res)
          /\ error_count' = IF res.exc = "none" THEN error_count
                            ELSE error_count + 1
          /\ call_log' = Append(call_log,
                                [request |-> "ai_map_file_to_directory",
                                 file |-> Head(todo), exc |-> res.exc])
    /\ todo' = Tail(todo)
    /\ UNCHANGED <<engineVars, mainVars, retryVars, treeVars,
                   repair_exchange>>
    /\ UNCHANGED <<exit_code, pipeline, stage, input_paths,
                   directories, model_mapping, missing_files, repair_calls>>

MapFilesReturn ==
    /\ pipeline = "map_files" /\ stage = "mapping"
    /\ todo = <<>>
    /\ stage' = "returned"
    /\ UNCHANGED <<engineVars, mainVars, retryVars, treeVars, call_log,
                   repair_exchange>>
    /\ UNCHANGED <<exit_code, pipeline, input_paths, todo,
                   directories, file_mapping, model_mapping, missing_files,
                   repair_calls, error_count>>

(* llm_file_organizer.py: main_two_step *)
\* the JSON objects the directory call can be answered with: the field
\* "directories" is there with a list, or it is not there
DirResponses ==
    { [has_field |-> TRUE, directories |-> D] : D \in SUBSET Values }
    \cup { [has_field |-> FALSE, directories |-> {}] }

\* dir_structure.get("directories", [])
GetDirectories(dir_structure) ==
    IF dir_structure.has_field THEN dir_structure.directories ELSE {}

\* the directory call and the parse of its answer
TwoStepGenerateDirs ==
    /\ pipeline = "two_step" /\ stage = "generate_dirs"
    /\ \/ /\ \E dir_structure \in DirResponses :
                /\ directories' = GetDirectories(dir_structure)
                /\ call_log' =
                      IF dir_structure.has_field THEN call_log
                      ELSE Append(call_log,
                                  [request |-> "ai_generate_directory_structure",
                                   file |-> <<>>, exc |-> "missing_field"])
          /\ stage' = "map_files" /\ exit_code' = exit_code
       \/ /\ stage' = "bad_json" /\ exit_code' = 0
          /\ UNCHANGED <<directories, call_log>>
       \/ /\ stage' = "crashed" /\ exit_code' = 1
          /\ UNCHANGED <<directories, call_log>>
    /\ UNCHANGED <<engineVars, mainVars, retryVars, treeVars,
                   repair_exchange>>
    /\ UNCHANGED <<pipeline, input_paths, todo, file_mapping,
                   model_mapping, missing_files, repair_calls, error_count>>

\* the mapping call and the parse of its answer
TwoStepMapFiles ==
    /\ pipeline = "two_step" /\ stage = "map_files"
    /\ \/ /\ \E m \in ModelMappings : file_mapping' = m
          /\ model_mapping' = file_mapping'
          /\ stage' = "validate" /\ exit_code' = exit_code
       \/ /\ stage' = "bad_json" /\ exit_code' = 0
          /\ UNCHANGED <<file_mapping, model_mapping>>
       \/ /\ stage' = "crashed" /\ exit_code' = 1
          /\ UNCHANGED <<file_mapping, model_mapping>>
    /\ UNCHANGED <<engineVars, mainVars, retryVars, treeVars, call_log,
                   repair_exchange>>
    /\ UNCHANGED <<pipeline, input_paths, todo, directories,
                   missing_files, repair_calls, error_count>>

TwoStepValidate ==
    /\ pipeline = "two_step" /\ stage = "validate"
    /\ missing_files' = ValidateFileMapping(input_paths, file_mapping).missing
    /\ stage' = AfterValidate(missing_files')
    /\ UNCHANGED <<engineVars, mainVars, retryVars, treeVars, call_log,
                   repair_exchange>>
    /\ UNCHANGED <<exit_code, pipeline, input_paths, todo,
                   directories, file_mapping, model_mapping, repair_calls,
                   error_count>>

\* variant: the repair is asked for the files the mapping already has
RepairArguments_Included(m, missing) ==
    [file_mapping |-> m, missing_files |-> DOMAIN m]

\* the keyword arguments file_mapping= and missing_files= of the repair call
RepairArguments(m, missing) ==
    [file_mapping |-> m, missing_files |-> missing]

\* the repair call, the second validation and the return when files are
\* still missing
TwoStepFixMissing ==
    /\ pipeline = "two_step" /\ stage = "repair"
    /\ repair_calls' = repair_calls + 1
    /\ LET args == RepairArguments(file_mapping, missing_files)
       IN  \/ /\ \E repair \in ModelMappings :
                   /\ file_mapping' =
                         AiFixMissingFiles(args.file_mapping, repair)
                   /\ repair_exchange' =
                         [missing_files |-> args.missing_files,
                          response |-> repair]
              /\ missing_files' =
                    ValidateFileMapping(input_paths, file_mapping').missing
              /\ stage' = AfterRepair(missing_files')
              /\ exit_code' = IF stage' = "unfixed" THEN 0 ELSE exit_code
           \/ /\ stage' = "crashed" /\ exit_code' = 1
              /\ repair_exchange' = [missing_files |-> args.missing_files,
                                     response |-> EmptyMap]
              /\ UNCHANGED <<file_mapping, missing_files>>
    /\ UNCHANGED <<engineVars, mainVars, retryVars, treeVars, call_log>>
    /\ UNCHANGED <<pipeline, input_paths, todo, directories,
                   model_mapping, error_count>>

TwoStepConfirm ==
    /\ pipeline = "two_step" /\ stage = "confirm"
    /\ \E user_confirmation \in {"y", "n"} :
          IF user_confirmation # "y"
          THEN stage' = "cancelled" /\ exit_code' = 0
          ELSE stage' = "move" /\ exit_code' = exit_code
    /\ UNCHANGED <<engineVars, mainVars, retryVars, treeVars, call_log,
                   repair_exchange>>
    /\ UNCHANGED <<pipeline, input_paths, todo, directories,
                   file_mapping, model_mapping, missing_files, repair_calls,
                   error_count>>

\* move_files and clean_empty_directories on the absolute mapping
TwoStepMoveFiles ==
    /\ pipeline = "two_step" /\ stage = "move"
    /\ stage' = "finished" /\ exit_code' = 0
    /\ UNCHANGED <<engineVars, mainVars, retryVars, treeVars, call_log,
                   repair_exchange>>
    /\ UNCHANGED <<pipeline, input_paths, todo, directories,
                   file_mapping, model_mapping, missing_files, repair_calls,
                   error_count>>

NextPipeline ==
    \/ ProposalCreateMapping
    \/ ProposalValidate
    \/ ProcessFileStep
    \/ ProcessFilesReturn
    \/ MapFileStep
    \/ MapFilesReturn
    \/ TwoStepGenerateDirs
    \/ TwoStepMapFiles
    \/ TwoStepValidate
    \/ TwoStepFixMissing
    \/ TwoStepConfirm
    \/ TwoStepMoveFiles

SpecPipeline == InitPipeline /\ [][NextPipeline]_vars

----------------------------------------------------------------------------
(* main.py: validate_file_mapping(mapping), called by main() on the        *)
(* absolute mapping; a dict is a sequence of entries in insertion order    *)
RECURSIVE ConflictScan_DropFirst(_, _)
\* variant: the conflict list is started without the first-seen source
ConflictScan_DropFirst(m, k) ==
    IF k = 0 THEN [dest_paths |-> EmptyMap, conflicts |-> EmptyMap]
    ELSE LET prev == ConflictScan_DropFirst(m, k - 1)
             src == m[k].src
             norm_dst == Normpath(m[k].dst)
         IN  IF norm_dst \in DOMAIN prev.dest_paths
             THEN LET started ==
                          IF norm_dst \notin DOMAIN prev.conflicts
                          THEN <<>>
                          ELSE prev.conflicts[norm_dst]
                  IN  [dest_paths |-> prev.dest_paths,
                       conflicts |-> Put(prev.conflicts, norm_dst,
                                         Append(started, src))]
             ELSE [dest_paths |-> Put(prev.dest_paths, norm_dst, src),
                   conflicts |-> prev.conflicts]

RECURSIVE ConflictScan(_, _)
\* the dictionaries dest_paths and destination_conflicts after the first k
\* iterations of "for src, dst in mapping.items()"
ConflictScan(m, k) ==
    IF k = 0 THEN [dest_paths |-> EmptyMap, conflicts |-> EmptyMap]
    ELSE LET prev == ConflictScan(m, k - 1)
             src == m[k].src
             norm_dst == Normpath(m[k].dst)
         IN  IF norm_dst \in DOMAIN prev.dest_paths
             THEN LET started ==
                          IF norm_dst \notin DOMAIN prev.conflicts
                          THEN <<prev.dest_paths[norm_dst]>>
                          ELSE prev.conflicts[norm_dst]
                  IN  [dest_paths |-> prev.dest_paths,
                       conflicts |-> Put(prev.conflicts, norm_dst,
                                         Append(started, src))]
             ELSE [dest_paths |-> Put(prev.dest_paths, norm_dst, src),
                   conflicts |-> prev.conflicts]

\* [e.src for e in m] and [e.dst for e in m]
Sources(m) == [i \in DOMAIN m |-> m[i].src]
Destinations(m) == [i \in DOMAIN m |-> m[i].dst]

\* variant: source and destination compared without os.path.normpath
MainValidateFileMapping_RawCompare(f, d, m) ==
    LET SourceGone(e) == ~Exists(f, d, e.src)
        WillOverwrite(e) == /\ Exists(f, d, e.dst)
                            /\ e.src # e.dst
    IN  [destination_conflicts |-> ConflictScan(m, Len(m)).conflicts,
         source_missing |-> Sources(SelectSeq(m, SourceGone)),
         destination_exists |-> Destinations(SelectSeq(m, WillOverwrite))]

\* main.py: validate_file_mapping
MainValidateFileMapping(f, d, m) ==
    LET SourceGone(e) == ~Exists(f, d, e.src)
        WillOverwrite(e) == /\ Exists(f, d, e.dst)
                            /\ Normpath(e.src) # Normpath(e.dst)
    IN  [destination_conflicts |-> ConflictScan(m, Len(m)).conflicts,
         source_missing |-> Sources(SelectSeq(m, SourceGone)),
         destination_exists |-> Destinations(SelectSeq(m, WillOverwrite))]

\* main(): "validation = validate_file_mapping(absolute_file_mapping)"
ValidateStep ==
    /\ engine = "main"
    /\ pc = "validate"
    /\ validation' = MainValidateFileMapping(files, dirs, mapping)
    /\ pc' = "confirm"
    /\ UNCHANGED <<fsVars, moveVars, cleanVars, pipeVars, retryVars, treeVars,
                   exit_code, answer>>

ValidatedMappings ==
    UNION { { m \in [1..n -> { AbsoluteEntry(s, t) :
                                 s \in RelativeSources, t \in DestDirs }] :
                Distinct(m) } : n \in 1..MaxValidated }

InitValidate ==
    /\ engine = "main"
    /\ InitFS
    /\ mapping \in ValidatedMappings
    /\ clean_up = TRUE
    /\ pc = "validate"
    /\ answer = ""
    /\ InitIdle
    /\ InitNoPipeline
    /\ InitNoRetry
    /\ InitNoTree

NextValidate == ValidateStep

SpecValidate == InitValidate /\ [][NextValidate]_vars

----------------------------------------------------------------------------
(* The confirmation prompt of main() and of main_two_step(), followed by   *)
(* the move and the cleanup                                                *)
Answers == { "y", "Y", "n", "N", "" }

\* str.lower() on the answers
Lower(a) == CASE a = "Y" -> "y" [] a = "N" -> "n" [] OTHER -> a

\* variant: every answer but "n" proceeds
Proceeds_NotNo(a) == Lower(a) # "n"

\* the negation of 'input(...).lower() != "y"'
Proceeds(a) == Lower(a) = "y"

\* main(): any(normpath(src) != normpath(dst) for src, dst in mapping.items())
ChangesNeeded(m) ==
    \E i \in DOMAIN m : Normpath(m[i].src) # Normpath(m[i].dst)

\* main(): "if not changes_needed: return", then the prompt
ConfirmChanges ==
    /\ engine = "main"
    /\ pc = "confirm"
    /\ IF ~ChangesNeeded(mapping)
       THEN pc' = "no_changes" /\ exit_code' = 0 /\ answer' = answer
       ELSE \E a \in Answers :
              /\ answer' = a
              /\ IF Proceeds(a)
                 THEN pc' = "move" /\ exit_code' = exit_code
                 ELSE pc' = "cancelled" /\ exit_code' = 0
    /\ UNCHANGED <<fsVars, moveVars, cleanVars, pipeVars, retryVars, treeVars,
                   validation>>

\* main_two_step(): the prompt
LegacyConfirm ==
    /\ engine = "file_utils"
    /\ pc = "confirm"
    /\ \E user_confirmation \in Answers :
          /\ answer' = user_confirmation
          /\ IF Proceeds(user_confirmation)
             THEN pc' = "move" /\ exit_code' = exit_code
             ELSE pc' = "cancelled" /\ exit_code' = 0
    /\ UNCHANGED <<fsVars, moveVars, cleanVars, pipeVars, retryVars, treeVars,
                   validation>>

InitMainRun ==
    /\ engine = "main"
    /\ InitFS
    /\ mapping \in MainMappings
    /\ clean_up \in BOOLEAN
    /\ pc = "validate"
    /\ answer = ""
    /\ InitIdle
    /\ InitNoPipeline
    /\ InitNoRetry
    /\ InitNoTree

InitTwoStepRun ==
    /\ engine = "file_utils"
    /\ InitFS
    /\ mapping \in LegacyMappings
    /\ clean_up = TRUE
    /\ pc = "confirm"
    /\ answer = ""
    /\ InitIdle
    /\ InitNoPipeline
    /\ InitNoRetry
    /\ InitNoTree

InitRun == InitMainRun \/ InitTwoStepRun

NextRun ==
    \/ ValidateStep
    \/ ConfirmChanges
    \/ LegacyConfirm
    \/ MoveEntry
    \/ MoveFilesReturn
    \/ CleanupStart
    \/ CleanupStep
    \/ LegacyMoveEntry
    \/ LegacyCleanupStart
    \/ LegacyCleanupDir
    \/ LegacyWalkUp

SpecRun == InitRun /\ [][NextRun]_vars

----------------------------------------------------------------------------
(* src/ai_utils.py: the request functions and their retry loop *)
RequestFunctions ==
    { "ai_generate_image_caption", "ai_generate_text_summary",
      "ai_map_file_to_directory", "ai_generate_directory_structure" }

Transient == { "RateLimitError", "Timeout", "ServiceUnavailableError" }

\* what litellm.completion can raise; "Exception" is any other exception
CompletionErrors ==
    Transient \cup { "AuthenticationError", "BadRequestError", "APIError",
                     "ConnectionError", "Exception" }

\* what one pass through the try body can meet: an exception of the call, a
\* usable response ("ok") or a response that the function rejects
CallOutcomes(fn) ==
    CompletionErrors \cup {"ok"} \cup
    ( CASE fn = "ai_map_file_to_directory" ->
               { "not_json", "missing_field", "not_in_directories" }
        [] fn = "ai_generate_directory_structure" ->
               { "not_json", "missing_field", "bad_format", "empty_list" }
        [] OTHER -> {} )

\* the exception raised inside the try body, "none" when the body returns
RaisedInTry(fn, o) ==
    IF o = "ok" THEN "none"
    ELSE IF o \in CompletionErrors THEN o
    ELSE IF fn = "ai_generate_directory_structure"
    THEN "DirectoryGenerationError"
    ELSE IF o = "not_in_directories" THEN "BadRequestError"
    ELSE "MappingError"

\* variant: a bad request is retried like a transient error
HandleApiExceptions_RetryBadRequest(e, n, max) ==
    IF e \in Transient \cup {"BadRequestError"} /\ n < max THEN "retry"
    ELSE IF e = "AuthenticationError" THEN "ModelConnectionError"
    ELSE IF e \in Transient THEN "ModelConnectionError"
    ELSE IF e = "BadRequestError" THEN "AIUtilsError"
    ELSE IF e = "APIError" THEN "ModelConnectionError"
    ELSE IF e = "ConnectionError" THEN "ModelConnectionError"
    ELSE "unhandled"

\* variant: the retry test is "retries <= max_retries"
HandleApiExceptions_OneMore(e, n, max) ==
    IF e \in Transient /\ n <= max THEN "retry"
    ELSE IF e = "AuthenticationError" THEN "ModelConnectionError"
    ELSE IF e \in Transient THEN "ModelConnectionError"
    ELSE IF e = "BadRequestError" THEN "AIUtilsError"
    ELSE IF e = "APIError" THEN "ModelConnectionError"
    ELSE IF e = "ConnectionError" THEN "ModelConnectionError"
    ELSE "unhandled"

\* _handle_api_exceptions(e, retries, max_retries, ...): "retry" for True,
\* "unhandled" for False, else the exception it raises
HandleApiExceptions(e, n, max) ==
    IF e \in Transient /\ n < max THEN "retry"
    ELSE IF e = "AuthenticationError" THEN "ModelConnectionError"
    ELSE IF e \in Transient THEN "ModelConnectionError"
    ELSE IF e = "BadRequestError" THEN "AIUtilsError"
    ELSE IF e = "APIError" THEN "ModelConnectionError"
    ELSE IF e = "ConnectionError" THEN "ModelConnectionError"
    ELSE "unhandled"

\* variant: a destination outside the directory list is asked for again
AttemptResult_RetryInvalidDirectory(fn, o, n, max) ==
    LET e == RaisedInTry(fn, o)
        h == HandleApiExceptions(e, n, max)
    IN  IF e = "none" THEN [result |-> "returned", retries |-> n]
        ELSE IF e \in {"MappingError", "DirectoryGenerationError"}
        THEN [result |-> e, retries |-> n]
        ELSE IF h = "retry" \/ (o = "not_in_directories" /\ n < max)
        THEN [result |-> "running", retries |-> n + 1]
        ELSE IF h = "unhandled" THEN [result |-> "AIUtilsError", retries |-> n]
        ELSE [result |-> h, retries |-> n]

\* "except Exception as e" of the while loop: the function's own error is
\* re-raised, _handle_api_exceptions decides on the rest
AttemptResult(fn, o, n, max) ==
    LET e == RaisedInTry(fn, o)
        h == HandleApiExceptions(e, n, max)
    IN  IF e = "none" THEN [result |-> "returned", retries |-> n]
        ELSE IF e \in {"MappingError", "DirectoryGenerationError"}
        THEN [result |-> e, retries |-> n]
        ELSE IF h = "retry" THEN [result |-> "running", retries |-> n + 1]
        ELSE IF h = "unhandled" THEN [result |-> "AIUtilsError", retries |-> n]
        ELSE [result |-> h, retries |-> n]

\* one pass through the body of "while True" of the request function fn
Attempt(fn) ==
    /\ request = fn
    /\ result = "running"
    /\ \E o \in CallOutcomes(fn) :
        LET r == AttemptResult(fn, o, retries, max_retries)
        IN  /\ invocations' = invocations + 1
            /\ exc_log' = Append(exc_log, o)
            /\ retries' = r.retries
            /\ result' = r.result
    /\ UNCHANGED <<engineVars, pipeVars, mainVars, treeVars, exit_code,
                   request, max_retries>>

AiGenerateImageCaption == Attempt("ai_generate_image_caption")
AiGenerateTextSummary == Attempt("ai_generate_text_summary")
AiMapFileToDirectory == Attempt("ai_map_file_to_directory")
AiGenerateDirectoryStructure == Attempt("ai_generate_directory_structure")

InitRetry ==
    /\ InitNoEngine
    /\ InitNoPipeline
    /\ InitNoTree
    /\ request \in RequestFunctions
    /\ max_retries \in 0..MaxRetries
    /\ retries = 0 /\ invocations = 0
    /\ result = "running" /\ exc_log = <<>>

NextRetry ==
    \/ AiGenerateImageCaption
    \/ AiGenerateTextSummary
    \/ AiMapFileToDirectory
    \/ AiGenerateDirectoryStructure

SpecRetry == InitRetry /\ [][NextRetry]_vars

----------------------------------------------------------------------------
(* src/file_utils.py: visualize_file_tree (src/visualize_structure.py has   *)
(* the same code).  A path is the sequence of its "/"-separated parts; the  *)
(* key "" of the directories dict is the empty sequence.                    *)
TreePaths ==
    { <<"f">>, <<"g">>, <<"a", "f">>, <<"a", "b", "f">>, <<"c", "f">> }

\* the order of Python strings on the names in use
NameRank == [n \in {"a", "b", "c", "f", "g"} |->
                CASE n = "a" -> 1 [] n = "b" -> 2 [] n = "c" -> 3
                  [] n = "f" -> 4 [] n = "g" -> 5]

\* p < q as strings: "/" sorts before every letter
RECURSIVE PathLess(_, _)
PathLess(p, q) ==
    IF p = <<>> THEN q # <<>>
    ELSE IF q = <<>> THEN FALSE
    ELSE IF Head(p) = Head(q) THEN PathLess(Tail(p), Tail(q))
    ELSE NameRank[Head(p)] < NameRank[Head(q)]

\* sorted(...) of a collection of distinct keys
RECURSIVE SortedPaths(_)
SortedPaths(S) ==
    IF S = {} THEN <<>>
    ELSE LET m == CHOOSE x \in S : \A y \in S \ {x} : PathLess(x, y)
         IN  <<m>> \o SortedPaths(S \ {m})

\* sorted(info["files"]); the names of one directory are distinct
SortedFiles(names) ==
    LET S == { <<names[i]>> : i \in DOMAIN names }
        sorted == SortedPaths(S)
    IN  [i \in DOMAIN sorted |-> sorted[i][1]]

\* one iteration of "for file_path in file_paths"
AddFilePath(D, path_parts) ==
    LET prefixes == { SubSeq(path_parts, 1, i) :
                        i \in 1..(Len(path_parts) - 1) }
        D1 == [key \in (DOMAIN D) \cup prefixes |->
                 IF key \in DOMAIN D THEN D[key]
                 ELSE [name |-> key[Len(key)], parent |-> Dirname(key),
                       files |-> <<>>]]
        directory == Dirname(path_parts)
    IN  IF Len(path_parts) = 1
        THEN LET D2 == IF <<>> \in DOMAIN D1 THEN D1
                       ELSE Put(D1, <<>>, [name |-> "", parent |-> <<>>,
                                           files |-> <<>>])
             IN  [D2 EXCEPT ![<<>>].files = Append(@, path_parts[1])]
        ELSE IF directory \in DOMAIN D1
        THEN [D1 EXCEPT ![directory].files =
                            Append(@, path_parts[Len(path_parts)])]
        ELSE D1

\* the directories dict after the first k paths
RECURSIVE BuildDirectories(_, _)
BuildDirectories(paths, k) ==
    IF k = 0 THEN EmptyMap
    ELSE AddFilePath(BuildDirectories(paths, k - 1), paths[k])

\* nodes of the rich Tree: what is shown, and the branch it was added to
CommonRoot == <<"/">>
DirNode(key, branch) == [kind |-> "dir", path |-> key, under |-> branch]
FileNode(key, filename, branch) ==
    [kind |-> "file", path |-> Append(key, filename), under |-> branch]

\* "for filename in sorted(info["files"]): branch.add(filename)"
FileNodes(D, key, branch) ==
    LET names == SortedFiles(D[key].files)
    IN  [i \in DOMAIN names |-> FileNode(key, names[i], branch)]

\* a branch for each directory of keys below parent_branch, each with its
\* files
RECURSIVE BranchNodes(_, _, _)
BranchNodes(D, keys, parent_branch) ==
    IF keys = <<>> THEN <<>>
    ELSE <<DirNode(Head(keys), parent_branch)>>
         \o FileNodes(D, Head(keys), Head(keys))
         \o BranchNodes(D, Tail(keys), parent_branch)

RootDirs(D) == SortedPaths({ p \in DOMAIN D : D[p].parent = <<>> })

\* the tree before the breadth-first loop: the only root directory as the
\* tree, or a common root with the files of "" and a branch for every root
\* directory
RootNodes(D) ==
    LET root_dirs == RootDirs(D)
    IN  IF Len(root_dirs) = 1
        THEN <<DirNode(root_dirs[1], CommonRoot)>>
             \o FileNodes(D, root_dirs[1], root_dirs[1])
        ELSE <<[kind |-> "common_root", path |-> CommonRoot,
                under |-> CommonRoot]>>
             \o (IF <<>> \in DOMAIN D /\ D[<<>>].files # <<>>
                 THEN FileNodes(D, <<>>, CommonRoot) ELSE <<>>)
             \o BranchNodes(D, root_dirs, CommonRoot)

\* the loop over file_paths
BuildTree ==
    /\ tree_pc = "build"
    /\ tree_directories' = BuildDirectories(file_paths, Len(file_paths))
    /\ tree_pc' = "roots"
    /\ UNCHANGED <<engineVars, pipeVars, mainVars, retryVars, exit_code>>
    /\ UNCHANGED <<file_paths, queue, processed, rendered>>

\* root_dirs, the early return and the tree with its first branches
StartTree ==
    /\ tree_pc = "roots"
    /\ LET root_dirs == RootDirs(tree_directories)
       IN  IF root_dirs = <<>> /\ DOMAIN tree_directories = {}
           THEN /\ tree_pc' = "empty"
                /\ UNCHANGED <<queue, processed, rendered>>
           ELSE /\ tree_pc' = "bfs"
                /\ rendered' = RootNodes(tree_directories)
                /\ queue' = root_dirs
                /\ processed' = { root_dirs[i] : i \in DOMAIN root_dirs }
    /\ UNCHANGED <<engineVars, pipeVars, mainVars, retryVars, exit_code>>
    /\ UNCHANGED <<file_paths, tree_directories>>

\* one iteration of "while queue"
BfsStep ==
    /\ tree_pc = "bfs"
    /\ queue # <<>>
    /\ LET parent_path == Head(queue)
           children == SortedPaths(
               { p \in DOMAIN tree_directories :
                   /\ tree_directories[p].parent = parent_path
                   /\ p \notin processed })
       IN  /\ processed' = processed \cup
                              { children[i] : i \in DOMAIN children }
           /\ rendered' = rendered
                 \o BranchNodes(tree_directories, children, parent_path)
           /\ queue' = Tail(queue) \o children
    /\ UNCHANGED <<engineVars, pipeVars, mainVars, retryVars, exit_code>>
    /\ UNCHANGED <<file_paths, tree_directories, tree_pc>>

\* the loop is left and the tree is printed
PrintTree ==
    /\ tree_pc = "bfs"
    /\ queue = <<>>
    /\ tree_pc' = "printed"
    /\ UNCHANGED <<engineVars, pipeVars, mainVars, retryVars, exit_code>>
    /\ UNCHANGED <<file_paths, tree_directories, queue, processed, rendered>>

\* lists of distinct paths
FilePathLists ==
    UNION { { l \in [1..n -> TreePaths] :
                \A i, j \in 1..n : i # j => l[i] # l[j] } : n \in 0..MaxPaths }

InitTree ==
    /\ InitNoEngine
    /\ InitNoPipeline
    /\ InitNoRetry
    /\ file_paths \in FilePathLists
    /\ tree_directories = EmptyMap
    /\ queue = <<>> /\ processed = {} /\ rendered = <<>>
    /\ tree_pc = "build"

NextTree ==
    \/ BuildTree
    \/ StartTree
    \/ BfsStep
    \/ PrintTree

SpecTree == InitTree /\ [][NextTree]_vars

----------------------------------------------------------------------------
(* Properties of the move engine and of the directory cleanup *)

MoveLoopFinished == idx > Len(mapping)

\* C2: after move_files has processed the mapping, every file that was at a
\* source path before the run is, with its own content, at its source path
\* or at its mapped destination path.
NoFileLost ==
    (engine = "main" /\ MoveLoopFinished) =>
        \A i \in DOMAIN mapping :
            LET s == Normpath(mapping[i].src)
                t == Normpath(mapping[i].dst)
            IN  s \in DOMAIN files0 =>
                    \/ s \in DOMAIN files /\ files[s] = files0[s]
                    \/ t \in DOMAIN files /\ files[t] = files0[s]

\* C3: an iteration of move_files in which the rename fails with an OS error
\* adds one to errors, raises nothing and goes on to the next entry.
MoveErrorIsolated ==
    [][ ( /\ engine = "main" /\ pc = "move" /\ idx <= Len(mapping)
          /\ outcomes' = Append(outcomes, "error") )
        => ( /\ errors' = errors + 1
             /\ idx' = idx + 1
             /\ pc' = "move"
             /\ exit_code' = -1 ) ]_vars

\* C3 witness: an entry failed and the entry after it was moved.
MoveErrorThenMoved ==
    /\ engine = "main"
    /\ \E i \in 1..(Len(outcomes) - 1) :
          outcomes[i] = "error" /\ outcomes[i + 1] = "moved"

\* C4: with only missing-source entries and moved entries, skipped is the
\* number of missing-source entries, moved the number of the others and
\* errors is 0, and the others are on disk at their destinations.
PartialFailureTally ==
    ( /\ engine = "main" /\ MoveLoopFinished
      /\ \A i \in DOMAIN outcomes : outcomes[i] \in {"missing", "moved"} )
    => /\ skipped = Cardinality({ i \in DOMAIN outcomes :
                                    outcomes[i] = "missing" })
       /\ moved = Cardinality({ i \in DOMAIN outcomes :
                                  outcomes[i] = "moved" })
       /\ errors = 0
       /\ \A i \in DOMAIN outcomes :
             outcomes[i] = "moved" => IsFile(files, mapping[i].dst)

NoOpEntry(i) == Normpath(mapping[i].src) = Normpath(mapping[i].dst)

\* C5: moving a file whose normalized source equals its normalized
\* destination adds one to skipped and leaves the filesystem unchanged, and
\* an entry skipped in one run is skipped again in the next run.
NoOpMoveIdempotent ==
    /\ [][ ( /\ engine = "main" /\ pc = "move" /\ idx <= Len(mapping)
             /\ NoOpEntry(idx)
             /\ IsFile(files, mapping[idx].src) )
           => ( /\ skipped' = skipped + 1
                /\ files' = files
                /\ dirs' = dirs ) ]_vars
    /\ [](engine = "main" =>
            \A i \in DOMAIN outcomes :
                (i <= Len(prev_outcomes) /\ prev_outcomes[i] = "skipped")
                    => outcomes[i] = "skipped")

\* C5 witness: the second run skipped an entry that the first run skipped and
\* whose paths are equal only after normalization.
NoOpSkippedTwice ==
    /\ engine = "main" /\ run = 2
    /\ \E i \in DOMAIN outcomes :
          /\ i <= Len(prev_outcomes)
          /\ prev_outcomes[i] = "skipped" /\ outcomes[i] = "skipped"
          /\ mapping[i].src # mapping[i].dst

\* C6: cleanup never removes the root, an ancestor of the root or a
\* directory outside the root.
CleanupKeepsRoot == {Top, Root, Outside} \subseteq dirs

\* C7: a directory is removed only when it has no entry at that moment, and
\* the cleanup never touches a file.
RemovedOnlyWhenEmpty ==
    [][ /\ \A p \in dirs \ dirs' : Listdir(files, dirs, p) = {}
        /\ (pc \in {"cleanup", "walk_up"} => files' = files) ]_vars

\* C7 witness: a finished cleanup removed a directory and left a non-empty
\* one in place.
CleanupKeptNonEmpty ==
    /\ pc = "done" /\ removed_log # <<>>
    /\ \E p \in dirs \cap TreeDirs : Listdir(files, dirs, p) # {}

Before(log, x, y) ==
    \E i, j \in DOMAIN log : i < j /\ log[i] = x /\ log[j] = y

\* C8: when the file of r/a/b was moved out and nothing is left below r/a,
\* a cleanup that met no error removed r/a/b, then r/a, and left the root.
CleanupUpwardPropagation ==
    ( /\ pc = "done" /\ MoveLoopFinished /\ clean_up
      /\ exit_code = 0 /\ rm_errors = 0
      /\ <<"r", "a", "b", "f">> \in DOMAIN files0
      /\ \A q \in DOMAIN files : <<"r", "a">> \notin Ancestors(q) )
    => /\ Before(removed_log, <<"r", "a", "b">>, <<"r", "a">>)
       /\ Root \in dirs
       /\ \A i \in DOMAIN removed_log : removed_log[i] # Root

\* C9: a failure to remove a directory does not stop the cleanup and does
\* not become a non-zero exit.
CleanupErrorRecovered ==
    (pc = "done" /\ MoveLoopFinished) =>
        (exit_code = 0 /\ dirs_to_check = <<>>)

\* C19: an iteration of move_files in which the destination parent directory
\* cannot be created counts one error, raises nothing and goes on to the
\* next entry.
MkdirErrorIsolated ==
    [][ ( /\ pc = "move" /\ idx <= Len(mapping)
          /\ outcomes' = Append(outcomes, "mkdir_error") )
        => ( /\ engine = "main" => errors' = errors + 1
             /\ idx' = idx + 1
             /\ pc' = "move"
             /\ exit_code' = -1 ) ]_vars

NoDestinationConflict(m) ==
    \A i, j \in DOMAIN m :
        i # j => Normpath(m[i].dst) # Normpath(m[j].dst)

Reordered(m) ==
    { [i \in DOMAIN m |-> m[perm[i]]] : perm \in Permutations(DOMAIN m) }

\* C24: for a mapping without destination conflicts, move_files leaves the
\* same filesystem and returns the same counters whatever the order of the
\* entries, also when the destination of one entry is the source of another.
MoveOrderIndependent ==
    ( /\ engine = "main" /\ pc = "move" /\ idx = 1 /\ run = 1
      /\ NoDestinationConflict(mapping) )
    => \A m \in Reordered(mapping) :
          RunMoveFiles(files, dirs, m, Len(m))
              = RunMoveFiles(files, dirs, mapping, Len(mapping))

\* C26: when move_files returns, moved + skipped + errors is the number of
\* entries of the mapping and moved is the number of entries relocated.
TallyConservation ==
    (engine = "main" /\ MoveLoopFinished) =>
        /\ moved + skipped + errors = Len(mapping)
        /\ moved = Cardinality({ i \in DOMAIN outcomes :
                                   outcomes[i] = "moved" })

\* C27: an iteration of move_files for an entry whose source does not exist
\* leaves the filesystem as it was: no directory is created for it.
MissingSourceNoEffect ==
    [][ ( /\ pc = "move" /\ idx <= Len(mapping)
          /\ outcomes' = Append(outcomes, "missing") )
        => (files' = files /\ dirs' = dirs) ]_vars

\* C28: for a mapping without destination conflicts, a second run of
\* move_files right after a first run in which every entry was moved or
\* skipped moves nothing and leaves every file where the first run left it.
BatchIdempotent ==
    ( /\ engine = "main" /\ run = 2 /\ MoveLoopFinished
      /\ NoDestinationConflict(mapping)
      /\ Len(prev_outcomes) = Len(mapping)
      /\ \A i \in DOMAIN prev_outcomes :
            prev_outcomes[i] \in {"moved", "skipped"} )
    => (moved = 0 /\ files = files0)

StrictlyBelowRoot(p) == p # Root /\ Root \in Ancestors(p)

\* C29: when cleanup_empty_dirs returns normally no directory strictly below
\* the root is empty, and each removal of a directory adds one to the count
\* it returns.
CleanupLeavesNoEmptyDir ==
    /\ []( ( /\ engine = "main" /\ pc = "done" /\ clean_up
             /\ MoveLoopFinished /\ exit_code = 0 )
           => \A p \in dirs :
                 StrictlyBelowRoot(p) => Listdir(files, dirs, p) # {} )
    /\ [][ (engine = "main" /\ pc \in {"cleanup_start", "cleanup"})
           => /\ removed_count' - (IF pc = "cleanup" THEN removed_count ELSE 0)
                    = Cardinality(dirs \ dirs')
              /\ dirs' \subseteq dirs ]_vars

\* C29 witness: a cleanup that returned normally removed a directory that
\* was empty only once its child had been removed in the same pass, and
\* returned the count 2.
CleanupCascadeCounted ==
    /\ engine = "main" /\ pc = "done" /\ clean_up /\ exit_code = 0
    /\ MoveLoopFinished /\ removed_count = 2
    /\ \E p \in TreeDirs :
          /\ Dirname(p) # Root
          /\ Before(removed_log, p, Dirname(p))
          /\ p \notin dirs /\ Dirname(p) \notin dirs

----------------------------------------------------------------------------
(* Properties of the proposal pipelines *)

HasMapping ==
    \/ pipeline \in {"proposal", "map_files"} /\ stage = "returned"
    \/ pipeline = "two_step"
       /\ stage \in {"confirm", "move", "finished", "cancelled"}

\* C1: a pipeline that ends with a mapping ends with a mapping whose key set
\* is exactly the set of input paths.
MappingKeysEqualInputs == HasMapping => DOMAIN file_mapping = input_paths

\* C10: the repair request is issued once when files are missing and never
\* otherwise; without missing files the mapping is used as it came; with
\* files missing after the repair the run ends before the confirmation.
RepairOnceIffMissing ==
    pipeline = "two_step" =>
        /\ repair_calls <= 1
        /\ stage = "repair" =>
              repair_calls = 0 /\ input_paths \ DOMAIN file_mapping # {}
        /\ stage \in {"confirm", "move", "finished", "cancelled", "unfixed"} =>
              (repair_calls = 1 <=> input_paths \ DOMAIN model_mapping # {})
        /\ stage \in {"confirm", "move", "finished", "cancelled"} =>
              /\ input_paths \subseteq DOMAIN file_mapping
              /\ repair_calls = 0 => file_mapping = model_mapping
        /\ stage = "unfixed" =>
              repair_calls = 1 /\ input_paths \ DOMAIN file_mapping # {}

\* C10 witness: files were still missing after the one repair attempt.
StillMissingAfterRepair ==
    /\ pipeline = "two_step" /\ stage = "unfixed"
    /\ repair_calls = 1 /\ missing_files # {}

\* the log entries of the per-file mapping requests that ended in an exception
FailedMapCalls ==
    { i \in DOMAIN call_log :
        /\ call_log[i].request = "ai_map_file_to_directory"
        /\ call_log[i].exc # "none" }

\* C11: a file for which the model gave no valid destination never appears
\* in the mapping, and no mapping is returned once a request has failed.
NoFabricatedDestination ==
    /\ \A i \in FailedMapCalls : call_log[i].file \notin DOMAIN file_mapping
    /\ (FailedMapCalls # {} => stage # "returned")

\* C15: once a model request has raised ModelConnectionError the run is over
\* with exit code 1: that request is the last one made.
FatalConnectionAborts ==
    \A i \in DOMAIN call_log :
        call_log[i].exc = "ModelConnectionError" =>
            (i = Len(call_log) /\ exit_code = 1)

\* C16: a run that ends with input files missing from the mapping ends with
\* exit code 2, before any file is moved.
MissingFilesExitTwo ==
    (stage \in {"exited", "unfixed"}) =>
        /\ input_paths \ DOMAIN file_mapping # {}
        /\ exit_code = 2

\* C17: a run ended by a response that is not valid JSON, by a connection
\* failure or by an unexpected exception has exit code 1, and exit code 0
\* belongs to success and to the clean no-ops.
FatalErrorExitOne ==
    /\ stage \in {"bad_json", "crashed"} => exit_code = 1
    /\ exit_code = 0 => stage \in {"finished", "cancelled"}

\* C20: every value of the mapping returned by map_files_to_directories is a
\* member of the directory list that was offered to the model.
MappingValuesInDirectoryList ==
    (pipeline = "map_files" /\ stage = "returned") =>
        \A f \in DOMAIN file_mapping : file_mapping[f] \in directories

\* C22: a directory response that is JSON but has no "directories" field is
\* a hard failure: the run ends there with exit code 1 and never goes on to
\* the mapping call with a default directory list.
MissingFieldIsHardFailure ==
    \A i \in DOMAIN call_log :
        call_log[i].exc = "missing_field" =>
            (stage = "crashed" /\ exit_code = 1)

\* C23: the repair call is given exactly the missing paths, and the mapping
\* after the repair has every key of the mapping before it and every key of
\* the repair answer, with the repair's value where both have the key and
\* the old value elsewhere.
RepairOnlyAdds ==
    (pipeline = "two_step" /\ repair_calls = 1 /\ stage # "crashed") =>
        LET response == repair_exchange.response
        IN  /\ repair_exchange.missing_files
                  = input_paths \ DOMAIN model_mapping
            /\ repair_exchange.missing_files # {}
            /\ DOMAIN file_mapping
                  = (DOMAIN model_mapping) \cup (DOMAIN response)
            /\ \A k \in DOMAIN file_mapping :
                  file_mapping[k] = IF k \in DOMAIN response
                                    THEN response[k] ELSE model_mapping[k]

\* C23 witness: the repair answered a key the mapping already had with
\* another value, and the mapping in use has the repair's value and still
\* has an old entry the repair did not mention.
RepairCollision ==
    /\ pipeline = "two_step" /\ stage = "confirm" /\ repair_calls = 1
    /\ \E k \in (DOMAIN model_mapping) \cap (DOMAIN repair_exchange.response) :
          /\ model_mapping[k] # repair_exchange.response[k]
          /\ file_mapping[k] = repair_exchange.response[k]
    /\ \E k \in (DOMAIN model_mapping) \ (DOMAIN repair_exchange.response) :
          file_mapping[k] = model_mapping[k]

\* C25: validate_file_mapping lists a destination under destination_exists
\* exactly when it exists on disk and its normalized path differs from the
\* normalized path of its source in some entry, and the validation changes
\* neither the mapping nor the filesystem.
DestinationExistsExact ==
    [][ (engine = "main" /\ pc = "validate" /\ pc' = "confirm")
        => /\ \A i \in DOMAIN mapping :
                 (\E k \in DOMAIN validation'.destination_exists :
                      validation'.destination_exists[k] = mapping[i].dst)
                 <=> (\E j \in DOMAIN mapping :
                        /\ mapping[j].dst = mapping[i].dst
                        /\ Exists(files, dirs, mapping[j].dst)
                        /\ Normpath(mapping[j].src)
                              # Normpath(mapping[j].dst))
           /\ \A k \in DOMAIN validation'.destination_exists :
                 \E i \in DOMAIN mapping :
                     mapping[i].dst = validation'.destination_exists[k]
           /\ mapping' = mapping /\ files' = files /\ dirs' = dirs ]_vars

\* C25 witness: one destination is listed, and another entry whose
\* destination exists is not listed because it names its own source with a
\* "." in the path.
OverwriteListedNoOpNot ==
    /\ engine = "main" /\ pc = "confirm" /\ pipeline = "none"
    /\ validation.destination_exists # <<>>
    /\ \E i \in DOMAIN mapping :
          /\ Exists(files, dirs, mapping[i].dst)
          /\ mapping[i].src # mapping[i].dst
          /\ Normpath(mapping[i].src) = Normpath(mapping[i].dst)
          /\ \A k \in DOMAIN validation.destination_exists :
                validation.destination_exists[k] # mapping[i].dst

----------------------------------------------------------------------------
(* Properties of the request functions of ai_utils *)

AllTransient == \A i \in DOMAIN exc_log : exc_log[i] \in Transient

\* C13: a request function invokes the model at most max_retries + 1 times,
\* and when every invocation failed with a transient error it has made
\* exactly max_retries + 1 invocations and raised ModelConnectionError.
BoundedTransientRetry ==
    /\ invocations <= max_retries + 1
    /\ invocations = Len(exc_log)
    /\ (AllTransient /\ invocations = max_retries + 1)
          => result = "ModelConnectionError"
    /\ (AllTransient /\ invocations < max_retries + 1) => result = "running"

\* C13 witness: three transient failures with the default max_retries = 2.
RetriesExhausted ==
    /\ max_retries = 2 /\ invocations = 3 /\ AllTransient
    /\ result = "ModelConnectionError"

\* C14: an invocation that raises an authentication error or a bad-request
\* error is the last one: the function raises at once, without adding to
\* the retry counter, and a first such invocation is the only one.
NonRetryableSurfaces ==
    \A i \in DOMAIN exc_log :
        exc_log[i] \in {"AuthenticationError", "BadRequestError"} =>
            /\ i = Len(exc_log)
            /\ invocations = i
            /\ retries = i - 1
            /\ result = IF exc_log[i] = "AuthenticationError"
                        THEN "ModelConnectionError" ELSE "AIUtilsError"

\* C14 witness: a bad request on the first invocation with retries left.
BadRequestRaisedAtOnce ==
    /\ exc_log = <<"BadRequestError">> /\ max_retries = 2
    /\ invocations = 1 /\ result = "AIUtilsError"

Malformed == { "not_json", "missing_field", "not_in_directories" }

----------------------------------------------------------------------------
(* Properties of validate_file_mapping of main.py *)

\* the sources of the mapping whose normalized destination is t, in mapping
\* order
SourcesOf(m, t) ==
    LET To(e) == Normpath(e.dst) = t
    IN  Sources(SelectSeq(m, To))

\* C12: a normalized destination is reported as a conflict exactly when two
\* or more sources map to it, and its list is those sources, each once, in
\* mapping order.
ConflictsSoundAndComplete ==
    pc = "confirm" =>
        LET conflicts == validation.destination_conflicts
            dests == { Normpath(mapping[i].dst) : i \in DOMAIN mapping }
        IN  /\ DOMAIN conflicts \subseteq dests
            /\ \A t \in dests :
                  /\ t \in DOMAIN conflicts <=> Len(SourcesOf(mapping, t)) >= 2
                  /\ t \in DOMAIN conflicts =>
                        conflicts[t] = SourcesOf(mapping, t)

\* C12 witness: a conflict of two sources that are not neighbours in the
\* mapping and whose destinations are equal only after normalization.
ConflictAcrossEntries ==
    /\ pc = "confirm" /\ Len(mapping) = 3
    /\ mapping[1].dst # mapping[3].dst
    /\ Normpath(mapping[1].dst) # Normpath(mapping[2].dst)
    /\ Normpath(mapping[1].dst) \in DOMAIN validation.destination_conflicts
    /\ validation.destination_conflicts[Normpath(mapping[1].dst)]
          = <<mapping[1].src, mapping[3].src>>

----------------------------------------------------------------------------
(* Properties of the confirmation prompt *)

\* C18 as stated: in a run whose answer is not the string "y", no step
\* changes a file or a directory, before or after the prompt.
NoMutationUnlessLowercaseY ==
    [][ answer' # "y" => (files' = files /\ dirs' = dirs) ]_vars

\* C18 amended: in a run whose answer, lower-cased, is not "y", no step
\* changes a file or a directory, before or after the prompt; the
\* filesystem is changed only after an answer "y" or "Y".
NoMutationUnlessConfirmed ==
    [][ Lower(answer') # "y" => (files' = files /\ dirs' = dirs) ]_vars

\* C18 witness: a run with changes to make was cancelled at the prompt and
\* the tree is as it was.
CancelledCleanly ==
    /\ pc = "cancelled" /\ answer = "n"
    /\ ChangesNeeded(mapping)
    /\ files = files0 /\ exit_code = 0

----------------------------------------------------------------------------
(* Properties of visualize_file_tree *)

Shown(kind, path) ==
    Cardinality({ i \in DOMAIN rendered :
                    rendered[i].kind = kind /\ rendered[i].path = path })

\* C30: in the printed tree every file of the list is shown exactly once and
\* every directory exactly once.
TreeShowsEachOnce ==
    tree_pc = "printed" =>
        /\ \A i \in DOMAIN file_paths : Shown("file", file_paths[i]) = 1
        /\ \A key \in DOMAIN tree_directories : Shown("dir", key) = 1

====
